---- MODULE Spec2Model ----
(***************************************************************************)
(* Two-tier metadata cache (server/metadata_cache_manager.py) and the lazy *)
(* property descriptor (server/metadata_lazy_evaluator.py).                *)
(*                                                                         *)
(* Python values, JSON text, cache keys and call results are records of    *)
(* one shape each, so that any two of them can be compared.                *)
(***************************************************************************)
EXTENDS Naturals, Integers, Sequences, FiniteSets, TLC

VARIABLES
    redis,          \* self.redis is set (an L1 client was passed to __init__)
    postgres,       \* self.postgres is set (an L2 connection was passed)
    l1,             \* contents of the Redis database: cache key -> bytes
    l2,             \* rows of table metadata_cache: cache key -> row
    stats,          \* self.stats
    last,           \* the most recent call on the manager and how it ended
    calls,          \* number of manager calls and backend events so far
    ended,          \* how many get calls ended in each outcome
    pairs,          \* two (metadata_id, property_name) pairs handed to _generate_cache_key
    keys,           \* the cache keys derived from pairs
    slot,           \* obj._lazy_<name> of one entity: the memoized value, if set
    access_log,     \* obj._lazy_access_log
    accessor,       \* each thread inside LazyProperty.__get__: position and locals
    invoked,        \* per lazy property: calls of self.func(obj), and those that raised
    returned,       \* per lazy property: the values __get__ has returned
    accesses,       \* number of operations on the entity started so far
    completed,      \* per lazy property: the accesses that returned a value
    core,           \* the core fields of the entity
    measured,       \* what get_lazy_size / get_access_statistics returned last
    worker,         \* each thread inside a manager call: position and locals
    computes,       \* per cache key: calls of compute_func since the key was last removed
    conc_calls,     \* number of manager calls the threads have started
    answer,         \* the most recent return of a get called by a thread
    writes          \* per cache key: the texts handed to SETEX or to the upsert

vars == <<redis, postgres, l1, l2, stats, last, calls, ended, pairs, keys,
          slot, access_log, accessor, invoked, returned, accesses,
          completed, core, measured,
          worker, computes, conc_calls, answer, writes>>

mgrVars == <<redis, postgres, l1, l2, stats, last, calls, ended>>

keyVars == <<pairs, keys>>

lazyVars == <<slot, access_log, accessor, invoked, returned, accesses,
              completed, core, measured>>

\* of the entity, what only assignments and the two measuring methods touch
entityVars == <<core, measured>>

concVars == <<worker, computes, conc_calls, answer, writes>>

\* of the threads' calls, what only the statements of get that return or
\* write a tier touch
getVars == <<answer, writes>>

----------------------------------------------------------------------------
(* Bounds of the model.                                                    *)

\* manager calls and backend events in one behaviour
MaxCalls == 3

\* longest metadata_id / property_name handed to _generate_cache_key alone
MaxStrLen == 2

\* l1_capacity passed to __init__ (the default is 1000)
L1Capacity == 2

\* operations on the entity (accesses, assignments, measurements) in one
\* behaviour
MaxAccesses == 3

\* manager calls started by the threads in one behaviour
MaxConcCalls == 3

\* manager calls and backend events in one behaviour in which any set of
\* backend operations may raise
MaxFaultCalls == 2

----------------------------------------------------------------------------
(* Strings are sequences of characters.                                    *)

Chars == {"a", ":"}

RECURSIVE StringsOfLen(_)
StringsOfLen(n) ==
    IF n = 0 THEN {<<>>}
    ELSE {Append(s, c) : s \in StringsOfLen(n - 1), c \in Chars}

Strings == UNION {StringsOfLen(n) : n \in 0..MaxStrLen}

\* hashlib.sha256(s.encode()).hexdigest()[:16], taken as collision free: the
\* digest of a string is represented by the string it was computed from.
sha256_hexdigest16(s) == [digest_of |-> s]

\* f"metadata:{metadata_id}:{property_name}", hashed
_generate_cache_key(metadata_id, property_name) ==
    LET key_string == <<"m", "e", "t", "a", "d", "a", "t", "a", ":">>
                      \o metadata_id \o <<":">> \o property_name
    IN  sha256_hexdigest16(key_string)

----------------------------------------------------------------------------
(* Python values and their JSON text.                                      *)

PyNone   == [type |-> "NoneType", val |-> <<>>]
PyDict(n) == [type |-> "dict", val |-> <<n>>]
PyList(n) == [type |-> "list", val |-> <<n>>]
PyTuple(n) == [type |-> "tuple", val |-> <<n>>]
PySet(n) == [type |-> "set", val |-> <<n>>]

\* values a compute function may return
PyValues == {PyDict(1), PyDict(2), PyTuple(1), PyNone}

\* redis.get() of a missing key / fetchone() without a row
NoBytes == [json |-> "nil", body |-> <<>>]

\* bytes that json.loads rejects
CorruptBytes == [json |-> "corrupt", body |-> <<>>]

\* a value json.dumps accepts
Serializable(v) == v.type \in {"NoneType", "dict", "list", "tuple"}

\* json.dumps(value): tuples are written as arrays, None as null
json_dumps(v) ==
    CASE v.type = "NoneType" -> [json |-> "null", body |-> <<>>]
      [] v.type = "dict"     -> [json |-> "object", body |-> v.val]
      [] v.type \in {"list", "tuple"} -> [json |-> "array", body |-> v.val]

\* json.loads accepts the text
Decodable(b) == b.json \in {"null", "object", "array"}

\* json.loads(text): arrays are read as lists
json_loads(b) ==
    CASE b.json = "null"   -> PyNone
      [] b.json = "object" -> [type |-> "dict", val |-> b.body]
      [] b.json = "array"  -> [type |-> "list", val |-> b.body]

\* Python truth value of what redis.get returned (None and b"" are false)
TruthyBytes(b) == b # NoBytes

----------------------------------------------------------------------------
(* The manager's inputs.                                                   *)

\* metadata_id is a UUID (column metadata_id UUID of the L2 schema)
MetadataIds == {<<"a">>, <<"b">>}

\* names of lazy properties
PropertyNames == {<<"h">>, <<"t">>}

\* the (metadata_id, property_name) pairs the callers ask for
Pairs == {<<(<<"a">>), (<<"h">>)>>, <<(<<"a">>), (<<"t">>)>>, <<(<<"b">>), (<<"h">>)>>}

\* three properties of one entity, one more than L1Capacity entries
EvictionPairs == {<<(<<"a">>), (<<"h">>)>>, <<(<<"a">>), (<<"d">>)>>, <<(<<"a">>), (<<"t">>)>>}

CacheKeys == {_generate_cache_key(ip[1], ip[2]) : ip \in Pairs \cup EvictionPairs}

NoFunc == [kind |-> "none", value |-> PyNone]
Returns(v) == [kind |-> "returns", value |-> v]
Raises == [kind |-> "raises", value |-> PyNone]

\* compute_func arguments of get
ComputeFuncs == {NoFunc, Raises} \cup {Returns(v) : v \in PyValues}

\* the compute_func arguments drawn when the manager is used by one caller
SeqComputeFuncs == {NoFunc, Raises, Returns(PyDict(1)), Returns(PyDict(2))}

\* places where a backend call can raise during get
GetFaultSets ==
    { {}, {"l1_get"}, {"l1_set"}, {"l1_dbsize"}, {"l2_get"}, {"l2_upsert"} }

\* places where a backend call can raise during invalidate
InvalidateFaultSets ==
    { {}, {"l1_delete"}, {"l2_delete"} }

\* a pure compute_func for each pair: called for the same pair it returns
\* the same value, a dict for two of the pairs and a tuple for the third
PureFunc(metadata_id, property_name) ==
    IF property_name = <<"t">> THEN Returns(PyTuple(1))
    ELSE IF metadata_id = <<"a">> THEN Returns(PyDict(1))
    ELSE Returns(PyDict(2))

\* every backend operation of a get that can raise
AllGetFaults == {"l1_get", "l1_set", "l1_dbsize", "l2_get", "l2_upsert", "l2_rollback"}

\* every backend operation of an invalidate that can raise
AllInvalidateFaults == {"l1_delete", "l2_delete", "l2_scan"}

NoRow == [metadata_id |-> <<>>, property_name |-> <<>>, value |-> NoBytes]

----------------------------------------------------------------------------
(* MetadataCacheManager.  A call is evaluated over a context: the tiers    *)
(* and counters as the call has changed them so far, the backend           *)
(* operations it has performed, and its result once it has one.            *)

Result(kind, value, src) == [kind |-> kind, value |-> value, src |-> src]

NoResult == Result("none", PyNone, "none")

\* raised by compute_func / by a backend
ComputeError == [type |-> "ComputeError", val |-> <<>>]
BackendError == [type |-> "BackendError", val |-> <<>>]

Context(c_l1, c_l2, c_stats) ==
    [l1 |-> c_l1, l2 |-> c_l2, stats |-> c_stats, ops |-> <<>>,
     raised |-> {}, done |-> FALSE, result |-> NoResult]

\* a backend operation that was performed
Did(ctx, op) == [ctx EXCEPT !.ops = Append(@, op)]

\* a backend operation that was attempted and raised
Failed(ctx, op) == [ctx EXCEPT !.ops = Append(@, op), !.raised = @ \cup {op}]

Count(ctx, counter) == [ctx EXCEPT !.stats[counter] = @ + 1]

Finish(ctx, res) == [ctx EXCEPT !.done = TRUE, !.result = res]

\* self.redis.dbsize()
dbsize(c_l1) == Cardinality({k \in DOMAIN c_l1 : c_l1[k] # NoBytes})

\* _set_l1: every exception raised inside is caught and printed
\* Redis SET / SETEX.  A Redis with an eviction policy makes room while it
\* serves the command (evicts): an entry other than the one written goes
\* when more than L1Capacity are held; otherwise entries go later, if at
\* all (L1Drop).
setex(c_l1, cache_key, serialized, evicts) ==
    LET written == [c_l1 EXCEPT ![cache_key] = serialized]
        others == {k \in DOMAIN written : k # cache_key /\ written[k] # NoBytes}
    IN  IF evicts /\ dbsize(written) > L1Capacity
        THEN [written EXCEPT ![CHOOSE k \in others : TRUE] = NoBytes]
        ELSE written

_set_l1(ctx, cache_key, value, faults) ==
    IF ~redis THEN ctx
    ELSE IF ~Serializable(value) THEN ctx
    ELSE IF "l1_set" \in faults THEN Failed(ctx, "l1_set")
    ELSE LET stored == [Did(ctx, "l1_set") EXCEPT
                           !.l1 = setex(@, cache_key, json_dumps(value),
                                        "l1_set_evicts" \in faults)]
         IN  IF "l1_dbsize" \in faults THEN Failed(stored, "l1_dbsize")
             ELSE IF dbsize(stored.l1) > L1Capacity
                  THEN Count(Did(stored, "l1_dbsize"), "evictions")
                  ELSE Did(stored, "l1_dbsize")

\* the row after INSERT ... ON CONFLICT (cache_key) DO UPDATE SET value
Upsert(row, metadata_id, property_name, serialized) ==
    IF row = NoRow
    THEN [metadata_id |-> metadata_id, property_name |-> property_name,
          value |-> serialized]
    ELSE [row EXCEPT !.value = serialized]

\* a _set_l2 that writes nothing
_set_l2_Skipped(ctx, cache_key, metadata_id, property_name, value, faults) ==
    ctx

\* _set_l2: a failed write is printed and rolled back; an exception raised
\* by rollback() itself is raised inside the handler and leaves _set_l2.
_set_l2(ctx, cache_key, metadata_id, property_name, value, faults) ==
    IF ~postgres THEN ctx
    ELSE IF Serializable(value) /\ "l2_upsert" \notin faults
    THEN [Did(ctx, "l2_upsert") EXCEPT
             !.l2[cache_key] = Upsert(@, metadata_id, property_name,
                                      json_dumps(value))]
    ELSE LET failed == IF Serializable(value)
                       THEN Failed(ctx, "l2_upsert") ELSE ctx
         IN  IF "l2_rollback" \in faults
             THEN Finish(Failed(failed, "l2_rollback"),
                         Result("raise", BackendError, "backend_error"))
             ELSE Did(failed, "l2_rollback")

\* a Level 1 that counts a hit and does not return on it
GetL1_NoShortCircuit(ctx, cache_key, faults) ==
    IF ~redis THEN ctx
    ELSE IF "l1_get" \in faults THEN Failed(ctx, "l1_get")
    ELSE LET cached_value == ctx.l1[cache_key]
             read == Did(ctx, "l1_get")
         IN  IF ~TruthyBytes(cached_value) THEN read
             ELSE Count(read, "l1_hits")

\* a Level 1 without the try/except around the read
GetL1_FaultPropagates(ctx, cache_key, faults) ==
    IF ~redis THEN ctx
    ELSE IF "l1_get" \in faults
    THEN Finish(Failed(ctx, "l1_get"),
                Result("raise", BackendError, "backend_error"))
    ELSE LET cached_value == ctx.l1[cache_key]
             read == Did(ctx, "l1_get")
         IN  IF ~TruthyBytes(cached_value) THEN read
             ELSE IF Decodable(cached_value)
                  THEN Finish(Count(read, "l1_hits"),
                              Result("return", json_loads(cached_value), "l1"))
                  ELSE Count(read, "l1_hits")

\* get, lines 133-141: Level 1
\* an L1 lookup that lets the decoding error of cached bytes escape
GetL1_CorruptPropagates(ctx, cache_key, faults) ==
    IF ~redis THEN ctx
    ELSE IF "l1_get" \in faults THEN Failed(ctx, "l1_get")
    ELSE LET cached_value == ctx.l1[cache_key]
             read == Did(ctx, "l1_get")
         IN  IF ~TruthyBytes(cached_value) THEN read
             ELSE IF Decodable(cached_value)
                  THEN Finish(Count(read, "l1_hits"),
                              Result("return", json_loads(cached_value), "l1"))
                  ELSE Finish(Count(read, "l1_hits"),
                              Result("raise", BackendError, "backend_error"))

GetL1(ctx, cache_key, faults) ==
    IF ~redis THEN ctx
    ELSE IF "l1_get" \in faults THEN Failed(ctx, "l1_get")
    ELSE LET cached_value == ctx.l1[cache_key]
             read == Did(ctx, "l1_get")
         IN  IF ~TruthyBytes(cached_value) THEN read
             ELSE IF Decodable(cached_value)
                  THEN Finish(Count(read, "l1_hits"),
                              Result("return", json_loads(cached_value), "l1"))
                  ELSE Count(read, "l1_hits")

\* a Level 2 that returns the row's value without promoting it
GetL2_NoPromotion(ctx, cache_key, faults) ==
    IF ctx.done \/ ~postgres THEN ctx
    ELSE IF "l2_get" \in faults THEN Failed(ctx, "l2_get")
    ELSE LET row == ctx.l2[cache_key]
             read == Did(ctx, "l2_get")
         IN  IF row = NoRow THEN read
             ELSE IF Decodable(row.value)
                  THEN Finish(Count(read, "l2_hits"),
                              Result("return", json_loads(row.value), "l2"))
                  ELSE Count(read, "l2_hits")

\* get, lines 146-169: Level 2
\* an L2 lookup that moves the row to L1 instead of copying it
GetL2_MovesToL1(ctx, cache_key, faults) ==
    IF ctx.done \/ ~postgres THEN ctx
    ELSE IF "l2_get" \in faults THEN Failed(ctx, "l2_get")
    ELSE LET row == ctx.l2[cache_key]
             read == Did(ctx, "l2_get")
         IN  IF row = NoRow THEN read
             ELSE IF Decodable(row.value)
                  THEN LET value == json_loads(row.value)
                           promoted == _set_l1(Count(read, "l2_hits"),
                                               cache_key, value, faults)
                       IN  Finish([promoted EXCEPT !.l2[cache_key] = NoRow],
                                  Result("return", value, "l2"))
                  ELSE Count(read, "l2_hits")

GetL2(ctx, cache_key, faults) ==
    IF ctx.done \/ ~postgres THEN ctx
    ELSE IF "l2_get" \in faults THEN Failed(ctx, "l2_get")
    ELSE LET row == ctx.l2[cache_key]
             read == Did(ctx, "l2_get")
         IN  IF row = NoRow THEN read
             ELSE IF Decodable(row.value)
                  THEN LET value == json_loads(row.value)
                       IN  Finish(_set_l1(Count(read, "l2_hits"), cache_key,
                                          value, faults),
                                  Result("return", value, "l2"))
                  ELSE Count(read, "l2_hits")

\* get, lines 174-187: cache miss
\* a miss that catches the error of compute_func and reports absent
GetMiss_SwallowsComputeError(ctx, cache_key, metadata_id, property_name, compute_func, faults) ==
    IF ctx.done THEN ctx
    ELSE IF compute_func = NoFunc
    THEN Finish(ctx, Result("return", PyNone, "absent"))
    ELSE LET counted == Did(Count(ctx, "misses"), "compute")
         IN  IF compute_func = Raises
             THEN Finish(counted, Result("return", PyNone, "absent"))
             ELSE LET value == compute_func.value
                      stored == _set_l2(_set_l1(counted, cache_key, value, faults),
                                        cache_key, metadata_id, property_name,
                                        value, faults)
                  IN  IF stored.done THEN stored
                      ELSE Finish(stored, Result("return", value, "compute"))

GetMiss(ctx, cache_key, metadata_id, property_name, compute_func, faults) ==
    IF ctx.done THEN ctx
    ELSE IF compute_func = NoFunc
    THEN Finish(ctx, Result("return", PyNone, "absent"))
    ELSE LET counted == Did(Count(ctx, "misses"), "compute")
         IN  IF compute_func = Raises
             THEN Finish(counted, Result("raise", ComputeError, "compute_error"))
             ELSE LET value == compute_func.value
                      stored == _set_l2(_set_l1(counted, cache_key, value, faults),
                                        cache_key, metadata_id, property_name,
                                        value, faults)
                  IN  IF stored.done THEN stored
                      ELSE Finish(stored, Result("return", value, "compute"))

\* MetadataCacheManager.get
\* a get that counts an access only when it returns a value
get_CountsAtReturn(ctx, metadata_id, property_name, compute_func, faults) ==
    LET cache_key == _generate_cache_key(metadata_id, property_name)
        out == GetMiss(GetL2(GetL1(ctx, cache_key, faults), cache_key, faults),
                       cache_key, metadata_id, property_name, compute_func, faults)
    IN  IF out.result.kind = "return" /\ out.result.src # "absent"
        THEN Count(out, "total_accesses")
        ELSE out

get(ctx, metadata_id, property_name, compute_func, faults) ==
    LET cache_key == _generate_cache_key(metadata_id, property_name)
        started == Count(ctx, "total_accesses")
    IN  GetMiss(GetL2(GetL1(started, cache_key, faults), cache_key, faults),
                cache_key, metadata_id, property_name, compute_func, faults)

----------------------------------------------------------------------------
(* Invalidation and statistics.                                            *)

\* None passed as property_name (an empty name takes the same branch)
NoProperty == <<>>

\* an _invalidate_key that leaves the hot tier alone
_invalidate_key_L2Only(ctx, cache_key, faults) ==
    IF ~postgres THEN ctx
    ELSE IF "l2_delete" \in faults THEN Failed(ctx, "l2_delete")
    ELSE [Did(ctx, "l2_delete") EXCEPT !.l2[cache_key] = NoRow]

\* _invalidate_key: both deletes are tried, each failure is printed
\* an _invalidate_key whose L1 delete is outside any try
_invalidate_key_L1FaultPropagates(ctx, cache_key, faults) ==
    IF ctx.done THEN ctx
    ELSE IF redis /\ "l1_delete" \in faults
    THEN Finish(Failed(ctx, "l1_delete"),
                Result("raise", BackendError, "backend_error"))
    ELSE LET after_l1 ==
                 IF ~redis THEN ctx
                 ELSE [Did(ctx, "l1_delete") EXCEPT !.l1[cache_key] = NoBytes]
         IN  IF ~postgres THEN after_l1
             ELSE IF "l2_delete" \in faults THEN Failed(after_l1, "l2_delete")
             ELSE [Did(after_l1, "l2_delete") EXCEPT !.l2[cache_key] = NoRow]

_invalidate_key(ctx, cache_key, faults) ==
    LET after_l1 ==
            IF ~redis THEN ctx
            ELSE IF "l1_delete" \in faults THEN Failed(ctx, "l1_delete")
            ELSE [Did(ctx, "l1_delete") EXCEPT !.l1[cache_key] = NoBytes]
    IN  IF ~postgres THEN after_l1
        ELSE IF "l2_delete" \in faults THEN Failed(after_l1, "l2_delete")
        ELSE [Did(after_l1, "l2_delete") EXCEPT !.l2[cache_key] = NoRow]

\* SELECT cache_key FROM metadata_cache WHERE metadata_id = %s
KeysOfEntity(c_l2, metadata_id) ==
    {k \in DOMAIN c_l2 : c_l2[k] # NoRow /\ c_l2[k].metadata_id = metadata_id}

RECURSIVE InvalidateKeys(_, _, _)
InvalidateKeys(ctx, ks, faults) ==
    IF ks = {} THEN ctx
    ELSE LET k == CHOOSE x \in ks : TRUE
         IN  InvalidateKeys(_invalidate_key(ctx, k, faults), ks \ {k}, faults)

\* MetadataCacheManager.invalidate
invalidate(ctx, metadata_id, property_name, faults) ==
    LET after ==
            IF property_name # NoProperty
            THEN _invalidate_key(ctx,
                     _generate_cache_key(metadata_id, property_name), faults)
            ELSE IF ~postgres THEN ctx
            ELSE IF "l2_scan" \in faults THEN Failed(ctx, "l2_scan")
            ELSE InvalidateKeys(Did(ctx, "l2_scan"),
                                KeysOfEntity(ctx.l2, metadata_id), faults)
        \* whether an entry left a tier is remembered with the result
        what == IF after.l1 # ctx.l1 \/ after.l2 # ctx.l2
                THEN "removed" ELSE "nothing"
    IN  IF after.done THEN after
        ELSE Finish(after, Result("return", PyNone, what))

\* a quotient of two counters, kept as numerator and denominator
Ratio(n, d) == [num |-> n, den |-> d]

NoReport == [rates |-> FALSE, l1_hit_rate |-> Ratio(0, 1), l2_hit_rate |-> Ratio(0, 1),
             miss_rate |-> Ratio(0, 1), average_access_time_ms |-> Ratio(0, 1)]

\* _calculate_average_access_time: p_l1 * 1.0 + p_l2 * 10.0 + p_miss * 300.0
_calculate_average_access_time(c_stats) ==
    LET total == c_stats["total_accesses"]
    IN  IF total = 0 THEN Ratio(0, 1)
        ELSE Ratio(c_stats["l1_hits"] * 1 + c_stats["l2_hits"] * 10
                   + c_stats["misses"] * 300, total)

\* MetadataCacheManager.get_statistics: the counters, and the rates once
\* there was an access
get_statistics(c_stats) ==
    LET total == c_stats["total_accesses"]
    IN  IF total = 0 THEN NoReport
        ELSE [rates |-> TRUE,
              l1_hit_rate |-> Ratio(c_stats["l1_hits"], total),
              l2_hit_rate |-> Ratio(c_stats["l2_hits"], total),
              miss_rate |-> Ratio(c_stats["misses"], total),
              average_access_time_ms |-> _calculate_average_access_time(c_stats)]

----------------------------------------------------------------------------
(* The manager used by one caller at a time: every call runs to its end.   *)

\* the step before this call was an invalidate of the same entry that
\* raised nothing and removed it from a tier
FollowsInvalidate(metadata_id, property_name) ==
    /\ last.op = "invalidate"
    /\ last.seq = calls
    /\ last.metadata_id = metadata_id
    /\ last.property_name = property_name
    /\ last.raised = {}
    /\ last.result.src = "removed"

\* the record of a call: its arguments, the backend operations it performed
\* and those that raised, its result, and its place among the steps
Call(op, metadata_id, property_name, compute_func, ctx, report) ==
    [op |-> op, metadata_id |-> metadata_id, property_name |-> property_name,
     compute_func |-> compute_func, raised |-> ctx.raised,
     result |-> ctx.result, ops |-> ctx.ops, report |-> report,
     seq |-> calls + 1,
     after_invalidate |-> FollowsInvalidate(metadata_id, property_name)]

NoCall == [op |-> "none", metadata_id |-> <<>>, property_name |-> <<>>,
           compute_func |-> NoFunc, raised |-> {}, result |-> NoResult,
           ops |-> <<>>, report |-> NoReport, seq |-> 0,
           after_invalidate |-> FALSE]

Outcomes == {"l1", "l2", "compute", "absent", "compute_error", "backend_error"}

\* __init__: counters at zero; the tiers are empty
InitManager ==
    /\ redis = TRUE
    /\ postgres = TRUE
    /\ l1 = [k \in CacheKeys |-> NoBytes]
    /\ l2 = [k \in CacheKeys |-> NoRow]
    /\ stats = [c \in {"l1_hits", "l2_hits", "misses", "evictions",
                       "total_accesses"} |-> 0]
    /\ last = NoCall
    /\ calls = 0
    /\ ended = [o \in Outcomes |-> 0]

Get(metadata_id, property_name, compute_func, faults) ==
    /\ calls < MaxCalls
    /\ LET out == get(Context(l1, l2, stats), metadata_id, property_name,
                      compute_func, faults)
       IN  /\ l1' = out.l1
           /\ l2' = out.l2
           /\ stats' = out.stats
           /\ last' = Call("get", metadata_id, property_name, compute_func,
                           out, NoReport)
           /\ ended' = [ended EXCEPT ![out.result.src] = @ + 1]
    /\ calls' = calls + 1
    /\ UNCHANGED <<redis, postgres, keyVars, lazyVars, concVars>>

Invalidate(metadata_id, property_name, faults) ==
    /\ calls < MaxCalls
    /\ LET out == invalidate(Context(l1, l2, stats), metadata_id,
                             property_name, faults)
       IN  /\ l1' = out.l1
           /\ l2' = out.l2
           /\ stats' = out.stats
           /\ last' = Call("invalidate", metadata_id, property_name, NoFunc,
                           out, NoReport)
    /\ calls' = calls + 1
    /\ UNCHANGED <<redis, postgres, ended, keyVars, lazyVars, concVars>>

GetStatistics ==
    /\ calls < MaxCalls
    /\ last' = Call("get_statistics", <<>>, <<>>, NoFunc,
                    Finish(Context(l1, l2, stats),
                           Result("return", PyNone, "statistics")),
                    get_statistics(stats))
    /\ calls' = calls + 1
    /\ UNCHANGED <<redis, postgres, l1, l2, stats, ended, keyVars, lazyVars, concVars>>

\* Redis drops an entry on its own: LRU eviction, or the TTL of setex
L1Drop(cache_key) ==
    /\ calls < MaxCalls
    /\ redis
    /\ l1[cache_key] # NoBytes
    /\ l1' = [l1 EXCEPT ![cache_key] = NoBytes]
    /\ calls' = calls + 1
    /\ UNCHANGED <<redis, postgres, l2, stats, last, ended, keyVars, lazyVars, concVars>>

\* stored bytes of an entry are damaged outside the manager
CorruptL1(cache_key) ==
    /\ calls < MaxCalls
    /\ redis
    /\ l1[cache_key] \notin {NoBytes, CorruptBytes}
    /\ l1' = [l1 EXCEPT ![cache_key] = CorruptBytes]
    /\ calls' = calls + 1
    /\ UNCHANGED <<redis, postgres, l2, stats, last, ended, keyVars, lazyVars, concVars>>

CorruptL2(cache_key) ==
    /\ calls < MaxCalls
    /\ postgres
    /\ l2[cache_key] # NoRow
    /\ l2[cache_key].value # CorruptBytes
    /\ l2' = [l2 EXCEPT ![cache_key].value = CorruptBytes]
    /\ calls' = calls + 1
    /\ UNCHANGED <<redis, postgres, l1, stats, last, ended, keyVars, lazyVars, concVars>>

----------------------------------------------------------------------------
(* LazyProperty on one ColorCombinationMetadata instance.  __get__ takes   *)
(* no lock: a thread can be suspended between any two of its statements.   *)

\* lazy properties of the entity (two of the four of ColorCombinationMetadata)
LazyProps == {"histogram", "perceptual_hash"}

Threads == {"t1", "t2"}

\* hasattr(obj, self.attr_name) is false
Unset == [set |-> FALSE, value |-> 0]

\* no entry under the property's name in obj._lazy_access_log
NoLogEntry == [present |-> FALSE, dict |-> 0, computed_at |-> 0, access_count |-> 0]

\* the order in which get_lazy_size goes through the lazy properties
LazyPropOrder == <<"histogram", "perceptual_hash">>

\* the fields of Set E
CoreFields == {"id", "frame_color", "drawer_color", "delta_e", "created_at",
               "source_image_path", "transformed_image_path"}

\* the methods of the entity that measure it
Measures == {"get_lazy_size", "get_access_statistics"}

\* the method has not been called yet
NoMeasure == [called |-> FALSE, include_uncomputed |-> FALSE, value |-> 0, at |-> 0]

\* what a measuring method returned, and as which operation on the entity
Measured(include_uncomputed, value, at) ==
    [called |-> TRUE, include_uncomputed |-> include_uncomputed,
     value |-> value, at |-> at]

\* a thread outside every method; sizing is set inside
\* get_lazy_size(include_uncomputed=True), todo are the properties it has
\* still to read
Idle == [pc |-> "idle", prop |-> "histogram", value |-> 0, log |-> 0, count |-> 0,
         sizing |-> FALSE, todo |-> <<>>]

InitLazy ==
    /\ slot = [p \in LazyProps |-> Unset]
    /\ access_log = [p \in LazyProps |-> NoLogEntry]
    /\ accessor = [t \in Threads |-> Idle]
    /\ invoked = [p \in LazyProps |-> [calls |-> 0, raised |-> 0]]
    /\ returned = [p \in LazyProps |-> {}]
    /\ accesses = 0
    /\ completed = [p \in LazyProps |-> 0]
    /\ core = [f \in CoreFields |-> "created"]
    /\ measured = [m \in Measures |-> NoMeasure]

AllIdle == \A t \in Threads : accessor[t].pc = "idle"

At(t, pc) == accessor[t].pc = pc

Goto(t, pc) == [accessor EXCEPT ![t].pc = pc]

\* obj.<name> is read: LazyProperty.__get__(obj) starts
LazyAccess(t, p) ==
    /\ accesses < MaxAccesses
    /\ At(t, "idle")
    /\ accessor' = [accessor EXCEPT ![t] = [Idle EXCEPT !.pc = "hasattr", !.prop = p]]
    /\ accesses' = accesses + 1
    /\ UNCHANGED <<slot, access_log, invoked, returned, completed, entityVars,
                   mgrVars, keyVars, concVars>>

\* an __get__ that computes on every access
LazyHasattr_AlwaysComputes(t) ==
    /\ At(t, "hasattr")
    /\ accessor' = Goto(t, "compute")
    /\ UNCHANGED <<slot, access_log, invoked, returned, accesses, completed, entityVars,
                   mgrVars, keyVars, concVars>>

\* line 83: if not hasattr(obj, self.attr_name)
LazyHasattr(t) ==
    /\ At(t, "hasattr")
    /\ accessor' = Goto(t, IF slot[accessor[t].prop].set THEN "count" ELSE "compute")
    /\ UNCHANGED <<slot, access_log, invoked, returned, accesses, completed, entityVars,
                   mgrVars, keyVars, concVars>>

\* an __get__ that memoizes the failure of the compute function
LazyCompute_MemoizesFailure(t) ==
    /\ At(t, "compute")
    /\ LET p == accessor[t].prop
       IN  \/ /\ invoked' = [invoked EXCEPT ![p].calls = @ + 1]
              /\ accessor' = [accessor EXCEPT ![t].pc = "setattr",
                                             ![t].value = invoked[p].calls + 1]
              /\ slot' = slot
           \/ /\ invoked' = [invoked EXCEPT ![p].calls = @ + 1, ![p].raised = @ + 1]
              /\ accessor' = [accessor EXCEPT ![t] = Idle]
              /\ slot' = [slot EXCEPT ![p] = [set |-> TRUE, value |-> 0]]
    /\ UNCHANGED <<access_log, returned, accesses, completed, entityVars,
                   mgrVars, keyVars, concVars>>

\* line 85: value = self.func(obj); each invocation yields a token of its
\* own, or raises, and then __get__ is left with nothing stored
LazyCompute(t) ==
    /\ At(t, "compute")
    /\ LET p == accessor[t].prop
       IN  \/ /\ invoked' = [invoked EXCEPT ![p].calls = @ + 1]
              /\ accessor' = [accessor EXCEPT ![t].pc = "setattr",
                                             ![t].value = invoked[p].calls + 1]
           \/ /\ invoked' = [invoked EXCEPT ![p].calls = @ + 1, ![p].raised = @ + 1]
              /\ accessor' = [accessor EXCEPT ![t] = Idle]
    /\ UNCHANGED <<slot, access_log, returned, accesses, completed, entityVars,
                   mgrVars, keyVars, concVars>>

\* line 86: setattr(obj, self.attr_name, value)
LazySetattr(t) ==
    /\ At(t, "setattr")
    /\ slot' = [slot EXCEPT ![accessor[t].prop] =
                   [set |-> TRUE, value |-> accessor[t].value]]
    /\ accessor' = Goto(t, "log")
    /\ UNCHANGED <<access_log, invoked, returned, accesses, completed, entityVars,
                   mgrVars, keyVars, concVars>>

\* lines 89-93: a new dict {computed_at, access_count: 1} is stored in the log
LazyLog(t) ==
    /\ At(t, "log")
    /\ access_log' = [access_log EXCEPT ![accessor[t].prop] =
                         [present |-> TRUE, dict |-> @.dict + 1,
                          computed_at |-> accesses, access_count |-> 1]]
    /\ accessor' = Goto(t, "return")
    /\ UNCHANGED <<slot, invoked, returned, accesses, completed, entityVars,
                   mgrVars, keyVars, concVars>>

\* lines 97-98, read: log = obj._lazy_access_log.get(name, {}) and
\* log.get('access_count', 0); without an entry log is a dict of its own
LazyCountRead(t) ==
    /\ At(t, "count")
    /\ LET entry == access_log[accessor[t].prop]
       IN  accessor' = [accessor EXCEPT
                           ![t].pc = "count_write",
                           ![t].log = IF entry.present THEN entry.dict ELSE 0,
                           ![t].count = IF entry.present THEN entry.access_count ELSE 0]
    /\ UNCHANGED <<slot, access_log, invoked, returned, accesses, completed, entityVars,
                   mgrVars, keyVars, concVars>>

\* a count that also stamps the entry again
LazyCountWrite_Restamps(t) ==
    /\ At(t, "count_write")
    /\ LET p == accessor[t].prop
       IN  access_log' =
               IF access_log[p].present /\ access_log[p].dict = accessor[t].log
               THEN [access_log EXCEPT ![p].access_count = accessor[t].count + 1,
                                       ![p].computed_at = accesses]
               ELSE access_log
    /\ accessor' = Goto(t, "return")
    /\ UNCHANGED <<slot, invoked, returned, accesses, completed, entityVars,
                   mgrVars, keyVars, concVars>>

\* line 98, write: log['access_count'] = ... + 1, into the dict that was read
LazyCountWrite(t) ==
    /\ At(t, "count_write")
    /\ LET p == accessor[t].prop
       IN  access_log' =
               IF access_log[p].present /\ access_log[p].dict = accessor[t].log
               THEN [access_log EXCEPT ![p].access_count = accessor[t].count + 1]
               ELSE access_log
    /\ accessor' = Goto(t, "return")
    /\ UNCHANGED <<slot, invoked, returned, accesses, completed, entityVars,
                   mgrVars, keyVars, concVars>>

\* total_size of get_lazy_size: the sizes of the memoized values, a value
\* taking as many bytes as its token says
total_size ==
    LET size(p) == IF slot[p].set THEN slot[p].value ELSE 0
    IN  size("histogram") + size("perceptual_hash")

\* line 100: return getattr(obj, self.attr_name); inside
\* get_lazy_size(include_uncomputed=True) the loop goes on with the next
\* property or returns total_size (lines 306-322)
LazyReturn(t) ==
    /\ At(t, "return")
    /\ returned' = [returned EXCEPT ![accessor[t].prop] = @ \cup {slot[accessor[t].prop].value}]
    /\ completed' = [completed EXCEPT ![accessor[t].prop] = @ + 1]
    /\ IF accessor[t].sizing /\ accessor[t].todo # <<>>
       THEN /\ accessor' = [accessor EXCEPT ![t] =
                               [Idle EXCEPT !.pc = "hasattr", !.sizing = TRUE,
                                            !.prop = Head(accessor[t].todo),
                                            !.todo = Tail(accessor[t].todo)]]
            /\ measured' = measured
       ELSE /\ accessor' = [accessor EXCEPT ![t] = Idle]
            /\ measured' = IF accessor[t].sizing
                           THEN [measured EXCEPT !["get_lazy_size"] =
                                    Measured(TRUE, total_size, accesses)]
                           ELSE measured
    /\ UNCHANGED <<slot, access_log, invoked, accesses, core,
                   mgrVars, keyVars, concVars>>

\* a get_lazy_size that reads the memoized properties through the
\* descriptor, so that each reading is counted as an access
GetLazySize_CountsReads(t, include_uncomputed) ==
    /\ accesses < MaxAccesses
    /\ At(t, "idle")
    /\ accesses' = accesses + 1
    /\ IF include_uncomputed
       THEN /\ accessor' = [accessor EXCEPT ![t] =
                               [Idle EXCEPT !.pc = "hasattr", !.sizing = TRUE,
                                            !.prop = Head(LazyPropOrder),
                                            !.todo = Tail(LazyPropOrder)]]
            /\ measured' = measured
            /\ access_log' = access_log
       ELSE /\ accessor' = accessor
            /\ measured' = [measured EXCEPT !["get_lazy_size"] =
                                Measured(FALSE, total_size, accesses + 1)]
            /\ access_log' = [p \in LazyProps |->
                                IF slot[p].set /\ access_log[p].present
                                THEN [access_log[p] EXCEPT !.access_count = @ + 1]
                                ELSE access_log[p]]
    /\ UNCHANGED <<slot, invoked, returned, completed, core,
                   mgrVars, keyVars, concVars>>

\* get_lazy_size(include_uncomputed), lines 294-322: with False it reads
\* the attributes _lazy_<name> that exist; with True it reads every lazy
\* property, one access after the other
GetLazySize(t, include_uncomputed) ==
    /\ accesses < MaxAccesses
    /\ At(t, "idle")
    /\ accesses' = accesses + 1
    /\ IF include_uncomputed
       THEN /\ accessor' = [accessor EXCEPT ![t] =
                               [Idle EXCEPT !.pc = "hasattr", !.sizing = TRUE,
                                            !.prop = Head(LazyPropOrder),
                                            !.todo = Tail(LazyPropOrder)]]
            /\ measured' = measured
       ELSE /\ accessor' = accessor
            /\ measured' = [measured EXCEPT !["get_lazy_size"] =
                                Measured(FALSE, total_size, accesses + 1)]
    /\ UNCHANGED <<slot, access_log, invoked, returned, completed, core,
                   mgrVars, keyVars, concVars>>

\* get_access_statistics, lines 324-334: properties_computed is
\* len(self._lazy_access_log)
GetAccessStatistics(t) ==
    /\ accesses < MaxAccesses
    /\ At(t, "idle")
    /\ accesses' = accesses + 1
    /\ measured' = [measured EXCEPT !["get_access_statistics"] =
                        Measured(FALSE,
                                 Cardinality({p \in LazyProps : access_log[p].present}),
                                 accesses + 1)]
    /\ UNCHANGED <<slot, access_log, accessor, invoked, returned, completed, core,
                   mgrVars, keyVars, concVars>>

\* obj.<field> = value for a core field: the dataclass is not frozen and
\* the field is a plain attribute
CoreAssign(t, field, value) ==
    /\ accesses < MaxAccesses
    /\ At(t, "idle")
    /\ accesses' = accesses + 1
    /\ core' = [core EXCEPT ![field] = value]
    /\ UNCHANGED <<slot, access_log, accessor, invoked, returned, completed, measured,
                   mgrVars, keyVars, concVars>>

\* values a caller tries to assign to a lazy property
AssignedValues == {8, 9}

\* obj.<name> = value is executed: LazyProperty.__set__(obj, value) starts
LazyAssign(t, p, value) ==
    /\ accesses < MaxAccesses
    /\ At(t, "idle")
    /\ accessor' = [accessor EXCEPT ![t] =
                       [Idle EXCEPT !.pc = "set", !.prop = p, !.value = value]]
    /\ accesses' = accesses + 1
    /\ UNCHANGED <<slot, access_log, invoked, returned, completed, entityVars,
                   mgrVars, keyVars, concVars>>

\* a __set__ that stores the value
LazySet_Stores(t) ==
    /\ At(t, "set")
    /\ slot' = [slot EXCEPT ![accessor[t].prop] =
                   [set |-> TRUE, value |-> accessor[t].value]]
    /\ accessor' = [accessor EXCEPT ![t] = Idle]
    /\ UNCHANGED <<access_log, invoked, returned, accesses, completed, entityVars,
                   mgrVars, keyVars, concVars>>

\* line 108: raise AttributeError
LazySet(t) ==
    /\ At(t, "set")
    /\ accessor' = Goto(t, "attribute_error")
    /\ UNCHANGED <<slot, access_log, invoked, returned, accesses, completed, entityVars,
                   mgrVars, keyVars, concVars>>

\* the caller is done with the AttributeError
LazyCaught(t) ==
    /\ At(t, "attribute_error")
    /\ accessor' = [accessor EXCEPT ![t] = Idle]
    /\ UNCHANGED <<slot, access_log, invoked, returned, accesses, completed, entityVars,
                   mgrVars, keyVars, concVars>>

\* a statement of an __get__ or __set__ in progress
LazyStep(t) ==
    \/ LazyHasattr(t)
    \/ LazyCompute(t)
    \/ LazySetattr(t)
    \/ LazyLog(t)
    \/ LazyCountRead(t)
    \/ LazyCountWrite(t)
    \/ LazyReturn(t)
    \/ LazySet(t)
    \/ LazyCaught(t)

----------------------------------------------------------------------------
(* One MetadataCacheManager called from several threads.  The manager      *)
(* holds no lock: a thread can be suspended between any two backend        *)
(* commands, and between the read and the write of a counter's += 1.       *)
(* Both backends answer; compute_func, when given, returns.  The SETEX and *)
(* the DBSIZE of one _set_l1 are taken as one step.                        *)

\* the keys the threads work on
ConcPairs == {<<(<<"a">>), (<<"h">>)>>, <<(<<"a">>), (<<"t">>)>>}

\* the compute_func arguments the threads pass
ConcFuncs == {NoFunc, Returns(PyDict(1)), Returns(PyDict(2))}

Resting == [pc |-> "idle", metadata_id |-> <<>>, property_name |-> <<>>,
            compute_func |-> NoFunc, bytes |-> NoBytes, value |-> PyNone,
            counter |-> "none", tmp |-> 0, then |-> "idle"]

\* no get has returned yet
NoAnswer == [n |-> 0, key |-> <<>>, compute_func |-> NoFunc,
             value |-> PyNone, src |-> "none"]

InitConc ==
    /\ worker = [t \in Threads |-> Resting]
    /\ computes = [k \in CacheKeys |-> 0]
    /\ conc_calls = 0
    /\ answer = NoAnswer
    /\ writes = [k \in CacheKeys |-> {}]

AllResting == \A t \in Threads : worker[t].pc = "idle"

KeyOf(t) == _generate_cache_key(worker[t].metadata_id, worker[t].property_name)

\* self.stats[counter] += 1, to be followed by the statement at pc
Increment(w, counter, pc) == [w EXCEPT !.pc = "inc_read", !.counter = counter, !.then = pc]

\* the get of thread t returns value, taken from src
Return(t, value, src) ==
    [n |-> answer.n + 1, key |-> KeyOf(t), compute_func |-> worker[t].compute_func,
     value |-> value, src |-> src]

\* json.dumps(value) is handed to a tier for the key of thread t
Write(t, value) == [writes EXCEPT ![KeyOf(t)] = @ \cup {json_dumps(value)}]

\* get(metadata_id, property_name, compute_func) is entered; line 127 is next
ConcGet(t, metadata_id, property_name, compute_func) ==
    /\ conc_calls < MaxConcCalls
    /\ worker[t].pc = "idle"
    /\ worker' = [worker EXCEPT ![t] =
                     Increment([Resting EXCEPT !.metadata_id = metadata_id,
                                               !.property_name = property_name,
                                               !.compute_func = compute_func],
                               "total_accesses", "l1_get")]
    /\ conc_calls' = conc_calls + 1
    /\ UNCHANGED <<computes, getVars, mgrVars, keyVars, lazyVars>>

\* the read of self.stats[counter] += 1
ConcIncRead(t) ==
    /\ worker[t].pc = "inc_read"
    /\ worker' = [worker EXCEPT ![t].pc = "inc_write",
                                ![t].tmp = stats[worker[t].counter]]
    /\ UNCHANGED <<computes, conc_calls, getVars, mgrVars, keyVars, lazyVars>>

\* the write of self.stats[counter] += 1
ConcIncWrite(t) ==
    /\ worker[t].pc = "inc_write"
    /\ stats' = [stats EXCEPT ![worker[t].counter] = worker[t].tmp + 1]
    /\ worker' = [worker EXCEPT ![t].pc = worker[t].then]
    /\ UNCHANGED <<redis, postgres, l1, l2, last, calls, ended,
                   computes, conc_calls, getVars, keyVars, lazyVars>>

\* lines 135-136: cached_value = self.redis.get(cache_key); if cached_value
ConcL1Get(t) ==
    /\ worker[t].pc = "l1_get"
    /\ worker' = [worker EXCEPT ![t] =
                     IF TruthyBytes(l1[KeyOf(t)])
                     THEN Increment([@ EXCEPT !.bytes = l1[KeyOf(t)]], "l1_hits", "l1_loads")
                     ELSE [@ EXCEPT !.pc = "l2_get"]]
    /\ UNCHANGED <<computes, conc_calls, getVars, mgrVars, keyVars, lazyVars>>

\* line 138: return json.loads(cached_value.decode('utf-8')); text that
\* cannot be decoded sends the call on to L2 (lines 139-141)
ConcL1Return(t) ==
    /\ worker[t].pc = "l1_loads"
    /\ IF Decodable(worker[t].bytes)
       THEN /\ answer' = Return(t, json_loads(worker[t].bytes), "l1")
            /\ worker' = [worker EXCEPT ![t] = Resting]
       ELSE /\ answer' = answer
            /\ worker' = [worker EXCEPT ![t].pc = "l2_get"]
    /\ UNCHANGED <<computes, conc_calls, writes, mgrVars, keyVars, lazyVars>>

\* line 174: if compute_func, line 175: the miss is counted; line 187:
\* return None
ConcMiss(t, w) ==
    IF w.compute_func = NoFunc
    THEN /\ answer' = Return(t, PyNone, "absent")
         /\ worker' = [worker EXCEPT ![t] = Resting]
    ELSE /\ answer' = answer
         /\ worker' = [worker EXCEPT ![t] = Increment(w, "misses", "compute")]

\* lines 149-160: the SELECT; a row counts an L2 hit, no row leads to
\* line 174
ConcL2Get(t) ==
    /\ worker[t].pc = "l2_get"
    /\ IF l2[KeyOf(t)] # NoRow
       THEN /\ answer' = answer
            /\ worker' = [worker EXCEPT ![t] =
                             Increment([@ EXCEPT !.bytes = l2[KeyOf(t)].value],
                                       "l2_hits", "promote")]
       ELSE ConcMiss(t, worker[t])
    /\ UNCHANGED <<computes, conc_calls, writes, mgrVars, keyVars, lazyVars>>

\* lines 161-166: value = json.loads(row[0]); self._set_l1(...); return
\* value; text that cannot be decoded leads to line 174 (lines 167-169)
ConcPromote(t) ==
    /\ worker[t].pc = "promote"
    /\ IF Decodable(worker[t].bytes)
       THEN LET value == json_loads(worker[t].bytes)
                out == _set_l1(Context(l1, l2, stats), KeyOf(t), value, {})
            IN  /\ l1' = out.l1
                /\ stats' = out.stats
                /\ writes' = Write(t, value)
                /\ answer' = Return(t, value, "l2")
                /\ worker' = [worker EXCEPT ![t] = Resting]
       ELSE /\ ConcMiss(t, worker[t])
            /\ UNCHANGED <<l1, stats, writes>>
    /\ UNCHANGED <<redis, postgres, l2, last, calls, ended,
                   computes, conc_calls, keyVars, lazyVars>>

\* line 178: value = compute_func()
ConcCompute(t) ==
    /\ worker[t].pc = "compute"
    /\ computes' = [computes EXCEPT ![KeyOf(t)] = @ + 1]
    /\ worker' = [worker EXCEPT ![t].pc = "set_l1",
                                ![t].value = worker[t].compute_func.value]
    /\ UNCHANGED <<conc_calls, getVars, mgrVars, keyVars, lazyVars>>

\* a _set_l1 whose write is laid over the text already stored
ConcSetL1_Overlays(t) ==
    /\ worker[t].pc = "set_l1"
    /\ LET out == _set_l1(Context(l1, l2, stats), KeyOf(t), worker[t].value, {})
           old == l1[KeyOf(t)]
       IN  /\ l1' = IF old = NoBytes \/ old = out.l1[KeyOf(t)]
                    THEN out.l1
                    ELSE [out.l1 EXCEPT ![KeyOf(t)].body = old.body \o @]
           /\ stats' = out.stats
    /\ writes' = Write(t, worker[t].value)
    /\ worker' = [worker EXCEPT ![t].pc = "set_l2"]
    /\ UNCHANGED <<redis, postgres, l2, last, calls, ended,
                   computes, conc_calls, answer, keyVars, lazyVars>>

\* line 181: self._set_l1(cache_key, value)
ConcSetL1(t) ==
    /\ worker[t].pc = "set_l1"
    /\ LET out == _set_l1(Context(l1, l2, stats), KeyOf(t), worker[t].value, {})
       IN  /\ l1' = out.l1
           /\ stats' = out.stats
    /\ writes' = Write(t, worker[t].value)
    /\ worker' = [worker EXCEPT ![t].pc = "set_l2"]
    /\ UNCHANGED <<redis, postgres, l2, last, calls, ended,
                   computes, conc_calls, answer, keyVars, lazyVars>>

\* lines 182-184: self._set_l2(...); return value
ConcSetL2(t) ==
    /\ worker[t].pc = "set_l2"
    /\ l2' = _set_l2(Context(l1, l2, stats), KeyOf(t), worker[t].metadata_id,
                     worker[t].property_name, worker[t].value, {}).l2
    /\ writes' = Write(t, worker[t].value)
    /\ answer' = Return(t, worker[t].value, "compute")
    /\ worker' = [worker EXCEPT ![t] = Resting]
    /\ UNCHANGED <<redis, postgres, l1, stats, last, calls, ended,
                   computes, conc_calls, keyVars, lazyVars>>

\* invalidate(metadata_id, property_name) is entered; _invalidate_key is next
ConcInvalidate(t, metadata_id, property_name) ==
    /\ conc_calls < MaxConcCalls
    /\ worker[t].pc = "idle"
    /\ worker' = [worker EXCEPT ![t] =
                     [Resting EXCEPT !.pc = "l1_delete",
                                     !.metadata_id = metadata_id,
                                     !.property_name = property_name]]
    /\ conc_calls' = conc_calls + 1
    /\ UNCHANGED <<computes, getVars, mgrVars, keyVars, lazyVars>>

\* line 295: self.redis.delete(cache_key); the key is being removed, and
\* the invocations of compute_func are counted anew from here
ConcL1Delete(t) ==
    /\ worker[t].pc = "l1_delete"
    /\ l1' = [l1 EXCEPT ![KeyOf(t)] = NoBytes]
    /\ computes' = [computes EXCEPT ![KeyOf(t)] = 0]
    /\ worker' = [worker EXCEPT ![t].pc = "l2_delete"]
    /\ UNCHANGED <<redis, postgres, l2, stats, last, calls, ended,
                   conc_calls, getVars, keyVars, lazyVars>>

\* lines 303-307: the DELETE and its commit
ConcL2Delete(t) ==
    /\ worker[t].pc = "l2_delete"
    /\ l2' = [l2 EXCEPT ![KeyOf(t)] = NoRow]
    /\ computes' = [computes EXCEPT ![KeyOf(t)] = 0]
    /\ worker' = [worker EXCEPT ![t] = Resting]
    /\ UNCHANGED <<redis, postgres, l1, stats, last, calls, ended,
                   conc_calls, getVars, keyVars, lazyVars>>

\* a statement of a call in progress
ConcStep(t) ==
    \/ ConcIncRead(t)
    \/ ConcIncWrite(t)
    \/ ConcL1Get(t)
    \/ ConcL1Return(t)
    \/ ConcL2Get(t)
    \/ ConcPromote(t)
    \/ ConcCompute(t)
    \/ ConcSetL1(t)
    \/ ConcSetL2(t)
    \/ ConcL1Delete(t)
    \/ ConcL2Delete(t)

----------------------------------------------------------------------------
(* _generate_cache_key on its own, for any two pairs of strings.           *)

InitKeysIdle ==
    /\ pairs = <<>>
    /\ keys = <<>>

InitKeys ==
    /\ pairs \in (Strings \X Strings) \X (Strings \X Strings)
    /\ keys = <<>>

DeriveKeys ==
    /\ keys = <<>>
    /\ keys' = <<_generate_cache_key(pairs[1][1], pairs[1][2]),
                 _generate_cache_key(pairs[2][1], pairs[2][2])>>
    /\ UNCHANGED <<pairs, mgrVars, lazyVars, concVars>>

----------------------------------------------------------------------------
(* Specifications.                                                         *)

\* the manager, one call at a time
Init ==
    /\ InitManager
    /\ InitKeysIdle
    /\ InitLazy
    /\ InitConc

Next ==
    \/ \E ip \in Pairs, f \in SeqComputeFuncs, fs \in GetFaultSets :
          Get(ip[1], ip[2], f, fs)
    \/ \E ip \in Pairs \cup {<<i, NoProperty>> : i \in MetadataIds},
          fs \in InvalidateFaultSets :
          Invalidate(ip[1], ip[2], fs)
    \/ GetStatistics
    \/ \E k \in CacheKeys : L1Drop(k)
    \/ \E k \in CacheKeys : CorruptL1(k)
    \/ \E k \in CacheKeys : CorruptL2(k)

Spec == Init /\ [][Next]_vars

\* the manager, one call at a time, with any compute_func and any set of
\* backend operations raising during a get or an invalidate
NextFault ==
    \/ \E ip \in Pairs, f \in ComputeFuncs, fs \in SUBSET AllGetFaults :
          calls < MaxFaultCalls /\ Get(ip[1], ip[2], f, fs)
    \/ \E ip \in Pairs \cup {<<i, NoProperty>> : i \in MetadataIds},
          fs \in SUBSET AllInvalidateFaults :
          calls < MaxFaultCalls /\ Invalidate(ip[1], ip[2], fs)
    \/ \E k \in CacheKeys : calls < MaxFaultCalls /\ CorruptL1(k)
    \/ \E k \in CacheKeys : calls < MaxFaultCalls /\ CorruptL2(k)

SpecFault == Init /\ [][NextFault]_vars

\* gets that fill the tiers, then invalidate with any set of its backend
\* operations raising
NextInvalidate ==
    \/ \E ip \in Pairs, fs \in {{}, {"l2_upsert"}} :
          Get(ip[1], ip[2], Returns(PyDict(1)), fs)
    \/ \E ip \in Pairs \cup {<<i, NoProperty>> : i \in MetadataIds},
          fs \in SUBSET AllInvalidateFaults :
          Invalidate(ip[1], ip[2], fs)

SpecInvalidate == Init /\ [][NextInvalidate]_vars

\* the eviction scenario: gets for the properties of one entity, against a
\* Redis that evicts while it serves the write or one that does not
NextEvict ==
    \/ \E ip \in EvictionPairs, v \in {PyDict(1), PyDict(2)},
          fs \in {{}, {"l1_set_evicts"}} :
          Get(ip[1], ip[2], Returns(v), fs)
    \/ \E k \in CacheKeys : L1Drop(k)
    \/ GetStatistics

SpecEvict == Init /\ [][NextEvict]_vars

\* the manager, one call at a time, with each pair always asked for with
\* the same pure compute_func (or with none), healthy backends, and Redis
\* dropping entries on its own
NextPure ==
    \/ \E ip \in Pairs :
          \E f \in {PureFunc(ip[1], ip[2]), NoFunc} : Get(ip[1], ip[2], f, {})
    \/ \E ip \in Pairs : Invalidate(ip[1], ip[2], {})
    \/ \E k \in CacheKeys : L1Drop(k)

SpecPure == Init /\ [][NextPure]_vars

\* key derivation
InitKey ==
    /\ InitManager
    /\ InitKeys
    /\ InitLazy
    /\ InitConc

NextKey == DeriveKeys

SpecKey == InitKey /\ [][NextKey]_vars

\* lazy properties read by several threads
NextLazy ==
    \/ \E t \in Threads, p \in LazyProps : LazyAccess(t, p)
    \/ \E t \in Threads, p \in LazyProps, v \in AssignedValues : LazyAssign(t, p, v)
    \/ \E t \in Threads : LazyStep(t)

SpecLazy == Init /\ [][NextLazy]_vars

\* lazy properties read by one thread at a time
NextLazySeq ==
    \/ \E t \in Threads, p \in LazyProps : AllIdle /\ LazyAccess(t, p)
    \/ \E t \in Threads, p \in LazyProps, v \in AssignedValues :
          AllIdle /\ LazyAssign(t, p, v)
    \/ \E t \in Threads, b \in BOOLEAN : AllIdle /\ GetLazySize(t, b)
    \/ \E t \in Threads : AllIdle /\ GetAccessStatistics(t)
    \/ \E t \in Threads : LazyStep(t)

\* one caller using the entity, its core fields included
NextEntity ==
    \/ \E t \in Threads, p \in LazyProps : AllIdle /\ LazyAccess(t, p)
    \/ \E t \in Threads, f \in CoreFields : AllIdle /\ CoreAssign(t, f, "assigned")
    \/ \E t \in Threads, p \in LazyProps, v \in AssignedValues :
          AllIdle /\ LazyAssign(t, p, v)
    \/ \E t \in Threads : LazyStep(t)

SpecEntity == Init /\ [][NextEntity]_vars

SpecLazySeq == Init /\ [][NextLazySeq]_vars

\* the manager called from several threads
NextConc ==
    \/ \E t \in Threads, ip \in ConcPairs, f \in ConcFuncs : ConcGet(t, ip[1], ip[2], f)
    \/ \E t \in Threads, ip \in ConcPairs : ConcInvalidate(t, ip[1], ip[2])
    \/ \E t \in Threads : ConcStep(t)

SpecConc == Init /\ [][NextConc]_vars

\* the threads calling get and invalidate for one and the same key
RacePair == <<(<<"a">>), (<<"h">>)>>

NextRace ==
    \/ \E t \in Threads, f \in ConcFuncs : ConcGet(t, RacePair[1], RacePair[2], f)
    \/ \E t \in Threads : ConcInvalidate(t, RacePair[1], RacePair[2])
    \/ \E t \in Threads : ConcStep(t)

SpecRace == Init /\ [][NextRace]_vars

----------------------------------------------------------------------------
(* Claims about the manager used by one caller at a time.                  *)

\* the step is a call of get (last' is its record)
GetStep == last'.op = "get" /\ last'.seq = calls'

\* the most recent step was the call recorded in last
JustCalled == last.seq = calls /\ calls > 0

CallKey(call) == _generate_cache_key(call.metadata_id, call.property_name)

L1Faults == {"l1_get", "l1_set", "l1_dbsize"}

\* C1: a get for a key that neither tier holds, with a compute_func that
\* returns a serializable V and with no backend operation raising, returns
\* V, adds exactly 1 to misses, and leaves the serialized V under the key
\* in L1 and in L2.
C1_MissPopulatesBothTiers ==
    [][ (/\ GetStep
         /\ redis /\ postgres
         /\ l1[CallKey(last')] = NoBytes
         /\ l2[CallKey(last')] = NoRow
         /\ last'.compute_func.kind = "returns"
         /\ Serializable(last'.compute_func.value)
         /\ last'.raised = {})
        => LET k == CallKey(last')
               v == last'.compute_func.value
           IN  /\ last'.result.kind = "return"
               /\ last'.result.value = v
               /\ stats'["misses"] = stats["misses"] + 1
               /\ l1'[k] = json_dumps(v)
               /\ l2'[k] # NoRow
               /\ l2'[k].value = json_dumps(v) ]_vars

\* a get that queried both tiers, hit neither, computed and wrote both
C1_Witness ==
    /\ JustCalled
    /\ last.op = "get"
    /\ last.raised = {}
    /\ last.result.src = "compute"
    /\ last.ops = <<"l1_get", "l2_get", "compute", "l1_set", "l1_dbsize",
                    "l2_upsert">>
    /\ stats["l1_hits"] = 0 /\ stats["l2_hits"] = 0
    /\ l1[CallKey(last)] = json_dumps(last.result.value)
    /\ l2[CallKey(last)].value = json_dumps(last.result.value)

\* C2: a get for a key that L1 does not hold and for which L2 holds the text
\* of V, with no backend operation raising, returns V, adds exactly 1 to
\* l2_hits, does not invoke compute_func, and leaves V under the key in L1.
C2_L2HitPromotes ==
    [][ (/\ GetStep
         /\ redis /\ postgres
         /\ l1[CallKey(last')] = NoBytes
         /\ l2[CallKey(last')] # NoRow
         /\ Decodable(l2[CallKey(last')].value)
         /\ last'.raised = {})
        => LET k == CallKey(last')
               v == json_loads(l2[k].value)
           IN  /\ last'.result.kind = "return"
               /\ last'.result.value = v
               /\ stats'["l2_hits"] = stats["l2_hits"] + 1
               /\ stats'["misses"] = stats["misses"]
               /\ \A n \in 1..Len(last'.ops) : last'.ops[n] # "compute"
               /\ Decodable(l1'[k])
               /\ json_loads(l1'[k]) = v
               /\ l2' = l2 ]_vars

\* a get served from L2 although a compute_func was passed, after which L1
\* holds the value; no L1 entry was ever read as a hit
C2_Witness ==
    /\ JustCalled
    /\ last.op = "get"
    /\ last.raised = {}
    /\ last.result.src = "l2"
    /\ last.compute_func.kind = "returns"
    /\ last.compute_func.value # last.result.value
    /\ stats["l1_hits"] = 0
    /\ l1[CallKey(last)] = json_dumps(last.result.value)

\* the tier a backend operation of get belongs to: L1 read, L2 read, then
\* compute_func and the writes
LookupRank(op) ==
    CASE op = "l1_get" -> 1
      [] op = "l2_get" -> 2
      [] OTHER -> 3

InLookupOrder(ops) ==
    \A m \in 1..Len(ops) : \A n \in m..Len(ops) :
        LookupRank(ops[m]) <= LookupRank(ops[n])

\* C3: every get reads L1 before L2 and L2 before it computes or writes;
\* and when L1 holds the text of V under the key and the L1 read does not
\* raise, get returns V, adds 1 to l1_hits (and 1 to total_accesses, nothing
\* else), performs the L1 read as its only backend operation (no L2 query,
\* no compute_func, no write) and leaves both tiers as they were.
C3_L1HitShortCircuits ==
    [][ /\ GetStep => InLookupOrder(last'.ops)
        /\ ( /\ GetStep
             /\ redis
             /\ Decodable(l1[CallKey(last')])
             /\ "l1_get" \notin last'.raised )
           => /\ last'.result.kind = "return"
              /\ last'.result.value = json_loads(l1[CallKey(last')])
              /\ stats' = [stats EXCEPT !["l1_hits"] = @ + 1,
                                        !["total_accesses"] = @ + 1]
              /\ last'.ops = <<"l1_get">>
              /\ l1' = l1
              /\ l2' = l2 ]_vars

\* a get served from L1 while L2 holds another value for the key and a
\* compute_func was passed
C3_Witness ==
    /\ JustCalled
    /\ last.op = "get"
    /\ last.result.src = "l1"
    /\ last.compute_func.kind = "returns"
    /\ l2[CallKey(last)] # NoRow
    /\ l2[CallKey(last)].value # l1[CallKey(last)]

\* C4: when invalidate(metadata_id, property_name) raised at no delete, the
\* next get of the same entry with a compute_func invokes it and does not
\* end as an L1 or L2 hit, whatever backend event lies between the two.
C4_InvalidateThenGetRecomputes ==
    [][ (/\ last.op = "invalidate"
         /\ last.property_name # NoProperty
         /\ last.raised = {}
         /\ GetStep
         /\ last'.metadata_id = last.metadata_id
         /\ last'.property_name = last.property_name
         /\ last'.compute_func # NoFunc)
        => /\ \E n \in 1..Len(last'.ops) : last'.ops[n] = "compute"
           /\ last'.result.src \in {"compute", "compute_error",
                                    "backend_error"} ]_vars

\* a get that computed again right after an invalidate that had removed the
\* entry cached by an earlier get
C4_Witness ==
    /\ JustCalled
    /\ last.op = "get"
    /\ last.after_invalidate
    /\ last.result.src = "compute"
    /\ stats["misses"] = 2

\* C8: when every get so far ended as an L1 hit, an L2 hit or a computed
\* miss, get_statistics reports l1_hit_rate = H1 / (H1 + H2 + M) for the
\* numbers H1, H2, M of gets that ended so, and l1_hits + l2_hits + misses =
\* total_accesses.
C8_RatesMatchOutcomes ==
    (/\ stats["total_accesses"] > 0
     /\ ended["absent"] = 0
     /\ ended["compute_error"] = 0
     /\ ended["backend_error"] = 0)
    => LET report == get_statistics(stats)
           n == ended["l1"] + ended["l2"] + ended["compute"]
       IN  /\ report.rates
           /\ report.l1_hit_rate.num * n = ended["l1"] * report.l1_hit_rate.den
           /\ stats["l1_hits"] + stats["l2_hits"] + stats["misses"]
              = stats["total_accesses"]

\* C10: a get during which an L1 operation raised ends as the same call
\* would end with no L1 fault and no L1 entry under the key: same kind of
\* result, same value, and never a backend error.
C10_L1FaultFallsThrough ==
    [][ (/\ GetStep
         /\ last'.raised \cap L1Faults # {})
        => LET k == CallKey(last')
               ref == get(Context([l1 EXCEPT ![k] = NoBytes], l2, stats),
                          last'.metadata_id, last'.property_name,
                          last'.compute_func, last'.raised \ L1Faults)
           IN  /\ last'.result.kind = ref.result.kind
               /\ last'.result.value = ref.result.value
               /\ last'.result.src # "backend_error" ]_vars

\* the L1 read raised, and the value came from L2 and was promoted
C10_Witness ==
    /\ JustCalled
    /\ last.op = "get"
    /\ "l1_get" \in last.raised
    /\ last.result.src = "l2"
    /\ l1[CallKey(last)] = json_dumps(last.result.value)

----------------------------------------------------------------------------
(* Claims about the lazy properties and about key derivation.              *)

Successes(p) == invoked[p].calls - invoked[p].raised

\* C5: whatever the interleaving of the threads reading one lazy property
\* of one entity, its compute function (when it does not raise) is invoked
\* at most once and all readers get the same value.
C5_SingleFlight ==
    \A p \in LazyProps :
        invoked[p].raised = 0
        => /\ invoked[p].calls <= 1
           /\ Cardinality(returned[p]) <= 1

\* C6: with one access at a time, a value once memoized stays as it is and
\* the compute function is not invoked again; a memoized value is the
\* result of the one invocation that returned; every value an access
\* returns is the memoized one.
C6_ComputedOnceThenMemoized ==
    [][ \A p \in LazyProps :
            /\ slot[p].set
               => /\ slot'[p] = slot[p]
                  /\ invoked'[p] = invoked[p]
            /\ slot'[p].set => (Successes(p))' = 1
            /\ returned'[p] # {}
               => /\ slot'[p].set
                  /\ returned'[p] = {slot'[p].value} ]_vars

\* a property was computed and then read again: the later access returned
\* the memoized value and the function has returned once
C6_Witness ==
    /\ AllIdle
    /\ \E p \in LazyProps :
          /\ slot[p].set
          /\ returned[p] = {slot[p].value}
          /\ Successes(p) = 1
          /\ access_log[p].access_count >= 2

\* C6 as stated: the compute function of a property is never invoked a
\* second time, whatever the first invocation did.
C6_InvokedOnce ==
    \A p \in LazyProps : invoked[p].calls <= 1

\* C7: whatever the interleaving of the calls on one manager, compute_func
\* is invoked at most once for a key between two removals of that key.
C7_ComputedAtMostOncePerKey ==
    \A k \in CacheKeys : computes[k] <= 1

\* C9: two distinct (metadata_id, property_name) pairs never get the same
\* cache key.
C9_KeyInjective ==
    (keys # <<>> /\ pairs[1] # pairs[2]) => keys[1] # keys[2]

----------------------------------------------------------------------------
(* Claims about faults, outcomes and removal.                              *)

\* what the caller of get has in hand: a returned value or a raised error
Observable(result) == [kind |-> result.kind, value |-> result.value]

L2Faults == {"l2_get", "l2_upsert", "l2_rollback"}

\* C11: a get in which an L2 operation raised is not ended by it: with a
\* compute_func that returns V and no L1 or L2 hit it returns V (the L2
\* read falls through to compute_func, a failed L2 write and its cleanup
\* are swallowed), and it never raises a backend error.
C11_L2FaultNotFatal ==
    (last.op = "get" /\ last.raised \cap L2Faults # {})
    => /\ last.result.value # BackendError
       /\ last.compute_func.kind = "returns"
          => last.result = Result("return", last.compute_func.value, "compute")

\* C12: every get ends with a value, with absent, or with the error raised
\* by compute_func.
C12_ThreeOutcomes ==
    last.op = "get"
    => \/ last.result.kind = "return"
       \/ last.result = Result("raise", ComputeError, "compute_error")

\* C13: get reports absent only without a compute_func, and what the caller
\* gets from a get that ended with a cached or computed value differs from
\* what it gets from one that ended absent.
C13_AbsentIsDistinct ==
    last.op = "get"
    => /\ last.result.src = "absent" => last.compute_func = NoFunc
       /\ last.result.src \in {"l1", "l2", "compute"}
          => Observable(last.result) # Observable(Result("return", PyNone, "absent"))

\* C14: when a get reaches compute_func (no L1 or L2 hit) and compute_func
\* raises, the get raises that same error and both tiers are as they were
\* before the call.
C14_ComputeErrorPropagates ==
    [][ ( /\ GetStep
          /\ last'.compute_func = Raises
          /\ last'.result.src \notin {"l1", "l2"} )
        => /\ last'.result = Result("raise", ComputeError, "compute_error")
           /\ l1' = l1
           /\ l2' = l2 ]_vars

\* a get ended with the error of compute_func after an undecodable L1 entry
\* of its key made it pass L1; the entry is still there
C14_Witness ==
    /\ JustCalled
    /\ last.op = "get"
    /\ last.result = Result("raise", ComputeError, "compute_error")
    /\ l1[CallKey(last)] = CorruptBytes

\* C15: an invalidate, for one property or for the whole entity, returns
\* normally whichever of its L1 delete, L2 delete and L2 key listing raise.
C15_InvalidateNeverRaises ==
    last.op = "invalidate"
    => /\ last.result.kind = "return"
       /\ last.result.value = PyNone

\* an invalidate of a whole entity listed a key, and both of the key's
\* deletes raised
C15_Witness ==
    /\ JustCalled
    /\ last.op = "invalidate"
    /\ last.property_name = NoProperty
    /\ last.raised = {"l1_delete", "l2_delete"}
    /\ last.result.kind = "return"

\* the step is a call of invalidate (last' is its record)
InvalidateStep == last'.op = "invalidate" /\ last'.seq = calls'

\* C16: an invalidate of a whole entity in which no backend operation
\* raises leaves no key of that entity in L1 or in L2, and leaves the
\* entries of the other entities as they were.
C16_InvalidateEntityRemovesAll ==
    [][ ( /\ InvalidateStep
          /\ last'.property_name = NoProperty
          /\ last'.raised = {} )
        => \A ip \in Pairs :
              LET k == _generate_cache_key(ip[1], ip[2])
              IN  IF ip[1] = last'.metadata_id
                  THEN l1'[k] = NoBytes /\ l2'[k] = NoRow
                  ELSE l1'[k] = l1[k] /\ l2'[k] = l2[k] ]_vars

\* the tier entries a get of key k consults that cannot be decoded
CorruptRead(k) ==
    \/ l1[k] = CorruptBytes
    \/ /\ ~Decodable(l1[k])
       /\ l2[k] # NoRow
       /\ l2[k].value = CorruptBytes

\* C17: a get that meets undecodable bytes in a tier, with no backend
\* operation raising, does not end in a backend error; with a compute_func
\* that returns V it returns the value of the next tier that holds one
\* (L2 after a corrupt L1) or else V, that value replaces the corrupt
\* entry in L1 and is what L2 holds, and a get that follows returns it.
C17_CorruptBytesAreAMiss ==
    [][ ( /\ GetStep
          /\ CorruptRead(CallKey(last'))
          /\ last'.raised = {} )
        => LET k == CallKey(last')
               l2_good == l2[k] # NoRow /\ Decodable(l2[k].value)
               expected == IF l2_good THEN json_loads(l2[k].value)
                           ELSE last'.compute_func.value
               following == get(Context(l1', l2', stats'), last'.metadata_id,
                                last'.property_name, NoFunc, {})
           IN  /\ last'.result.src # "backend_error"
               /\ (l2_good \/ last'.compute_func.kind = "returns")
                  => /\ last'.result.kind = "return"
                     /\ last'.result.value = expected
                     /\ l1'[k] = json_dumps(expected)
                     /\ l2'[k] # NoRow
                     /\ l2'[k].value = json_dumps(expected)
                     /\ following.result.kind = "return"
                     /\ following.result.value = json_loads(json_dumps(expected)) ]_vars

\* a get counted an L1 hit on bytes it could not decode, was served by L2,
\* and L1 holds the row's value again
C17_Witness ==
    /\ JustCalled
    /\ last.op = "get"
    /\ last.raised = {}
    /\ last.result.src = "l2"
    /\ stats["l1_hits"] = 1
    /\ ended["l1"] = 0
    /\ l1[CallKey(last)] = l2[CallKey(last)].value

\* C18: with L1 holding L1Capacity entries, a get for a further key that
\* neither tier holds computes the value, stores it in L1, and adds exactly
\* 1 to the evictions counter.
C18_EvictionCounted ==
    [][ ( /\ GetStep
          /\ dbsize(l1) = L1Capacity
          /\ l1[CallKey(last')] = NoBytes
          /\ l2[CallKey(last')] = NoRow
          /\ last'.compute_func.kind = "returns"
          /\ last'.raised = {} )
        => /\ last'.result = Result("return", last'.compute_func.value, "compute")
           /\ l1'[CallKey(last')] = json_dumps(last'.compute_func.value)
           /\ stats'["evictions"] = stats["evictions"] + 1 ]_vars

\* the step is a call on the manager (and not a step of a backend)
ManagerStep == last'.seq = calls'

\* C19: a row leaves L2 only in an invalidate call, whatever gets, L1
\* evictions and L1 expiries happen; and an entry leaves L1 in a call on
\* the manager only if the call is an invalidate.
C19_RemovedOnlyByInvalidate ==
    [][ \A k \in CacheKeys :
            /\ (l2[k] # NoRow /\ l2'[k] = NoRow) => InvalidateStep
            /\ (l1[k] # NoBytes /\ l1'[k] = NoBytes /\ ManagerStep)
               => InvalidateStep ]_vars

\* a row written by a get served a later get that did not find the key in
\* L1, and is still in L2
C19_Witness ==
    /\ JustCalled
    /\ last.op = "get"
    /\ last.result.src = "l2"
    /\ ended["compute"] = 1
    /\ stats["l1_hits"] = 0
    /\ l2[CallKey(last)] # NoRow

\* C20: an assignment to a lazy property ends with AttributeError whether
\* or not the property has been computed, and leaves every property's
\* memoized value (or its absence) as it was.
C20_AssignmentFails ==
    [][ \A t \in Threads :
            (accessor[t].pc = "set" /\ accessor'[t] # accessor[t])
            => /\ accessor'[t].pc = "attribute_error"
               /\ slot' = slot ]_vars

\* an assignment to a property that had been computed ended with
\* AttributeError, and the property still holds the computed value
C20_Witness ==
    \E t \in Threads :
        /\ accessor[t].pc = "attribute_error"
        /\ slot[accessor[t].prop].set
        /\ slot[accessor[t].prop].value # accessor[t].value
        /\ slot[accessor[t].prop].value \in returned[accessor[t].prop]

----------------------------------------------------------------------------
(* Claims about the counters, about equal values and about the entity.     *)

\* C25: the three outcome counters together never exceed the number of
\* accesses: no get is counted under more than one of l1_hits, l2_hits and
\* misses.
C25_OutcomeCountersDisjoint ==
    stats["l1_hits"] + stats["l2_hits"] + stats["misses"] <= stats["total_accesses"]

\* the get calls made so far, whatever their outcome
GetCalls ==
    ended["l1"] + ended["l2"] + ended["compute"] + ended["absent"]
    + ended["compute_error"] + ended["backend_error"]

\* C29: every get adds exactly 1 to total_accesses, so that total_accesses
\* is the number of get calls made, those ending absent or with the error
\* of compute_func included; invalidate and get_statistics leave l1_hits,
\* l2_hits, misses and total_accesses as they are.
C29_TotalCountsEveryGet ==
    [][ /\ GetStep => stats'["total_accesses"] = stats["total_accesses"] + 1
        /\ stats'["total_accesses"] = GetCalls'
        /\ (ManagerStep /\ last'.op \in {"invalidate", "get_statistics"})
           => \A c \in {"l1_hits", "l2_hits", "misses", "total_accesses"} :
                  stats'[c] = stats[c] ]_vars

\* get_statistics was called after a get that ended absent and a get that
\* ended with the error of compute_func; both were counted
C29_Witness ==
    /\ JustCalled
    /\ last.op = "get_statistics"
    /\ ended["absent"] = 1
    /\ ended["compute_error"] = 1
    /\ stats["total_accesses"] = 2

\* C21: with a pure compute_func per pair, every get that returns a value
\* for the pair returns the value compute_func returns, whether the get
\* computed it or was served from L1 or L2.
C21_RepeatedGetsReturnEqualValues ==
    (last.op = "get" /\ last.result.src \in {"l1", "l2", "compute"})
    => last.result.value = PureFunc(last.metadata_id, last.property_name).value


\* C23 as stated: whatever is done with the entity, its core fields are
\* those it was created with.
C23_CoreImmutable ==
    \A f \in CoreFields : core[f] = "created"

\* the accesses to p made so far, one at a time: those that returned and
\* those in which the compute function raised
Accessed(p) == completed[p] + invoked[p].raised

\* C24 as stated: after n >= 1 accesses to a lazy property, one at a time,
\* the log has an entry for it whose access_count is n.
C24_CountsEveryAccess ==
    AllIdle
    => \A p \in LazyProps :
           Accessed(p) >= 1
           => /\ access_log[p].present
              /\ access_log[p].access_count = Accessed(p)

\* C24: after n >= 1 accesses to a lazy property that returned a value, one
\* access at a time, the log has an entry for it whose access_count is n;
\* the entry is made in the first access that returns, computed_at is the
\* time of that access, and neither the entry nor computed_at changes in
\* any later step; before the first access that returns there is no entry.
C24_CountsReturnedAccesses ==
    [][ \A p \in LazyProps :
            /\ AllIdle'
               => /\ access_log'[p].present <=> completed'[p] >= 1
                  /\ access_log'[p].present
                     => access_log'[p].access_count = completed'[p]
            /\ (~access_log[p].present /\ access_log'[p].present)
               => /\ completed[p] = 0
                  /\ access_log'[p].computed_at = accesses
            /\ access_log[p].present
               => /\ access_log'[p].present
                  /\ access_log'[p].computed_at = access_log[p].computed_at ]_vars

\* the compute function raised in the first access; the second access made
\* the entry and the third was counted in it
C24_Witness ==
    /\ AllIdle
    /\ \E p \in LazyProps :
          /\ invoked[p].raised = 1
          /\ completed[p] = 2
          /\ access_log[p].present
          /\ access_log[p].access_count = 2
          /\ access_log[p].computed_at = 2

\* the step of thread t in which the compute function of p raises
ComputeRaises(t, p) ==
    /\ At(t, "compute")
    /\ accessor[t].prop = p
    /\ invoked'[p].raised = invoked[p].raised + 1

\* C28: when the compute function of a lazy property raises, the access
\* ends there without returning a value, the property has no memoized
\* value and no log entry, before and after; and an access to a property
\* without memoized value invokes the compute function.
C28_FailureNotMemoized ==
    [][ \A t \in Threads, p \in LazyProps :
            /\ ComputeRaises(t, p)
               => /\ accessor'[t] = Idle
                  /\ returned' = returned
                  /\ completed' = completed
                  /\ ~slot[p].set /\ ~slot'[p].set
                  /\ ~access_log[p].present /\ ~access_log'[p].present
            /\ (At(t, "hasattr") /\ accessor[t].prop = p /\ ~slot[p].set
                /\ accessor'[t] # accessor[t])
               => accessor'[t].pc = "compute"
            /\ (At(t, "compute") /\ accessor[t].prop = p /\ accessor'[t] # accessor[t])
               => invoked'[p].calls = invoked[p].calls + 1 ]_vars

\* the compute function raised in the first access and was invoked again
\* in the second, whose value is memoized
C28_Witness ==
    /\ AllIdle
    /\ \E p \in LazyProps :
          /\ invoked[p].raised = 1
          /\ invoked[p].calls = 2
          /\ completed[p] = 1
          /\ slot[p].set
          /\ slot[p].value = 2

\* the step is a call of get_lazy_size(include_uncomputed=False)
GetLazySizeStep ==
    /\ AllIdle
    /\ measured'["get_lazy_size"] # measured["get_lazy_size"]
    /\ ~measured'["get_lazy_size"].include_uncomputed

\* C30: with one operation on the entity at a time, between operations
\* the properties that have a log entry are those that have a memoized
\* value; get_access_statistics reports the number of memoized values as
\* properties_computed; get_lazy_size(include_uncomputed=False) invokes no
\* compute function and changes neither a memoized value nor the log.
C30_LogMatchesMemoized ==
    [][ /\ AllIdle'
           => \A p \in LazyProps : access_log'[p].present <=> slot'[p].set
        /\ measured'["get_access_statistics"] # measured["get_access_statistics"]
           => measured'["get_access_statistics"].value
              = Cardinality({p \in LazyProps : slot'[p].set})
        /\ GetLazySizeStep
           => /\ invoked' = invoked
              /\ slot' = slot
              /\ access_log' = access_log ]_vars

\* one property was computed, then get_lazy_size() measured it, then
\* get_access_statistics reported one computed property; the access count
\* of the property is still 1 and the other property is not computed
C30_Witness ==
    /\ AllIdle
    /\ measured["get_lazy_size"].called
    /\ ~measured["get_lazy_size"].include_uncomputed
    /\ measured["get_lazy_size"].at = 2
    /\ measured["get_lazy_size"].value > 0
    /\ measured["get_access_statistics"].called
    /\ measured["get_access_statistics"].at = 3
    /\ measured["get_access_statistics"].value = 1
    /\ \E p \in LazyProps :
          /\ slot[p].set
          /\ access_log[p].access_count = 1
          /\ \A q \in LazyProps \ {p} : ~slot[q].set

\* C22: whatever the interleaving of the gets and invalidates of one key,
\* a get returns either the decoding of a whole text that was handed to a
\* tier for that key before, or the value its own compute_func returned,
\* or absent when it was given no compute_func; it returns nothing else.
C22_WholeValueOrAbsent ==
    answer.n > 0
    => /\ answer.src \in {"l1", "l2", "compute", "absent"}
       /\ answer.src \in {"l1", "l2"}
          => answer.value \in {json_loads(b) : b \in writes[answer.key]}
       /\ answer.src = "compute"
          => /\ answer.compute_func # NoFunc
             /\ answer.value = answer.compute_func.value
       /\ answer.src = "absent"
          => /\ answer.compute_func = NoFunc
             /\ answer.value = PyNone

\* a get returned the value stored in L2 while an invalidate of the same
\* key had deleted it from L1 and was about to delete it from L2
C22_Witness ==
    /\ answer.src = "l2"
    /\ answer.value \in {PyDict(1), PyDict(2)}
    /\ \E t \in Threads :
          /\ worker[t].pc = "l2_delete"
          /\ KeyOf(t) = answer.key
          /\ l2[KeyOf(t)] # NoRow

\* C26 as stated: once the gets and invalidates of a key have completed,
\* L1 holds no value for a key for which L2 holds none.
C26_TiersAgree ==
    AllResting
    => \A k \in CacheKeys : l1[k] # NoBytes => l2[k] # NoRow

\* C27 as stated: once the calls of the threads have completed,
\* total_accesses is the number of get calls made.
C27_NoLostUpdate ==
    AllResting => stats["total_accesses"] = answer.n

====
